---------------------------- MODULE Spec2Model ----------------------------
(***************************************************************************)
(* dataset_orm.files: a file-like API that stores files of arbitrary size  *)
(* as chunk rows of an SQL database.  The model holds the two tables       *)
(* (DatasetFile, DatasetFilePart), the FileLike handles a caller keeps,    *)
(* and the outcome of the last call made.                                  *)
(***************************************************************************)
EXTENDS Integers, Sequences, FiniteSets, Bags, TLC

(***************************************************************************)
(* Bounds of the model.                                                    *)
(***************************************************************************)
\* longest payload handed to one write call
MaxLen == 3
\* most chunk rows the DatasetFilePart table holds
MaxRows == 4
\* most primary keys the DatasetFile table hands out
MaxId == 2
\* most calls made in one run
MaxCalls == 3
\* FileLike.chunksize (256 KiB in the source), scaled down
chunksize == 2
\* default batchsize of FileLike.write (1000 in the source), scaled down
write_batchsize == 2
\* default batchsize of FileLike.read (10 in the source), scaled down
read_batchsize == 2
\* FileLike.max_workers (min(32, os.cpu_count() + 4) in the source), scaled
\* down
max_workers == 2

\* longest filename spelled out character by character
MaxName == 2

Names == {"a", "b"}

\* Filenames as the sequence of their characters, for the calls that look
\* into a filename: letters, and the underscore filenames often carry
Chars == {"a", "_"}
CharNames == UNION {[1..n -> Chars] : n \in 1..MaxName}
Handles == {1}
\* the threads that make calls at the same time
Threads == {1, 2}

\* Mode strings, as the sequence of their characters.
ModeR == <<"r">>
ModeW == <<"w">>
ModeWB == <<"w", "b">>
ModeWPlus == <<"w", "+">>
ModeRW == <<"r", "w">>
Modes == {ModeR, ModeW, ModeWB, ModeWPlus, ModeRW}

\* Modes open is also called with: 'rb', and 'x', which has no marker that
\* open knows.
ModeRB == <<"r", "b">>
ModeX == <<"x">>
OpenModes == Modes \cup {ModeRB, ModeX}

\* the size argument of read: everything, or one byte
ReadSizes == {-1, 1}

\* Payloads: the first n bytes of a word whose i-th byte is i, so that a byte
\* out of place, missing or repeated shows in what is read back.
Data == {[i \in 1..n |-> i] : n \in 0..MaxLen}

VARIABLES
    dsfiles,    \* the DatasetFile table: rows [id, filename, size, parts]
    dsparts,    \* the DatasetFilePart table: a bag of rows [file_id, part_no, data]
    nextId,     \* the next primary key the DatasetFile table assigns; keys are
                \* handed out in increasing order and never a second time
    handles,    \* the FileLike objects the caller holds, by slot
    last,       \* the last call made and how it ended
    ncalls,     \* the number of calls made
    threads     \* the threads that run calls at the same time: where each
                \* stands in its call and what it holds

vars == <<dsfiles, dsparts, nextId, handles, last, ncalls, threads>>

(***************************************************************************)
(* Values.                                                                 *)
(***************************************************************************)
\* `None` for a DatasetFile
NoFile == [id |-> 0, filename |-> "", size |-> 0, parts |-> 0]

\* FileLike._readbuffer = None
NoBuffer == [open |-> FALSE, buf |-> <<>>, pos |-> 0]

\* an empty handle slot
NoHandle == [file |-> NoFile, mode |-> <<>>, readpos |-> 0, readbuffer |-> NoBuffer]

\* a thread that has not started: pc is where it stands, seen the row its
\* open found, fl the handle it holds, queue the commit tasks its write
\* submitted that no worker has taken yet, running the tasks a worker is
\* running, part_no and size the counters its write computed, res how its
\* last call ended, overlap whether its write ran while another thread was
\* writing to the same file id
NoThread ==
    [pc |-> "idle", name |-> "", mode |-> <<>>, seen |-> NoFile, fl |-> NoHandle,
     queue |-> <<>>, running |-> {}, part_no |-> 0, size |-> 0, res |-> "",
     overlap |-> FALSE]

\* A handle that starts its counters at zero instead of taking them from
\* the DatasetFile row: the append of C5 must not hold of it.
FileLikeZero(dsfile, mode) ==
    [file |-> [dsfile EXCEPT !.size = 0, !.parts = 0], mode |-> mode,
     readpos |-> 0, readbuffer |-> NoBuffer]

\* FileLike.__init__
FileLike(dsfile, mode) ==
    [file |-> dsfile, mode |-> mode, readpos |-> 0, readbuffer |-> NoBuffer]

\* the record of a call: what was called, with what, and how it ended; data
\* is the payload written or the bytes returned, id the file's primary key,
\* before the DatasetFile row the filename had when the call was made, and
\* order the order in which the fetch tasks of a read finished
Call(op, name, h, mode, data, res, id) ==
    [op |-> op, name |-> name, h |-> h, mode |-> mode, data |-> data,
     res |-> res, id |-> id, before |-> NoFile, order |-> <<>>]

\* one more call is made
Called == ncalls < MaxCalls /\ ncalls' = ncalls + 1

\* `c in mode`
InMode(c, mode) == \E i \in 1..Len(mode) : mode[i] = c

(***************************************************************************)
(* The row store.                                                          *)
(***************************************************************************)
\* cls.objects.find(filename=filename).first(): rows are ordered by id
FindFirst(files, name) ==
    LET rows == {r \in files : r.filename = name}
    IN  IF rows = {} THEN NoFile
        ELSE CHOOSE r \in rows : \A q \in rows : r.id <= q.id

\* DatasetFilePart.objects.find(file_id=id): the bag of matching rows
FindParts(rows, id) ==
    LET match == {r \in BagToSet(rows) : r.file_id = id}
    IN  [r \in match |-> rows[r]]

\* A delete that leaves the rows in place: C9 must not hold of it.
KeepParts(rows, id) == rows

\* DatasetFilePart.objects.find(file_id=id).delete()
DeleteParts(rows, id) ==
    LET keep == {r \in BagToSet(rows) : r.file_id # id}
    IN  [r \in keep |-> rows[r]]

\* Model.delete: table.delete(id=pk)
DeleteFile(files, id) == {r \in files : r.id # id}

\* A save that updates the size of a row it finds and leaves its parts: C26
\* must not hold of it.
UpsertSizeOnly(files, dsfile) ==
    IF \E r \in files : r.id = dsfile.id
    THEN {IF r.id = dsfile.id THEN [r EXCEPT !.size = dsfile.size] ELSE r :
            r \in files}
    ELSE files \cup {dsfile}

\* Model.save with a primary key: table.upsert(row, ['id']) updates the row
\* with that id, or inserts the row under that id when there is none
Upsert(files, dsfile) == {r \in files : r.id # dsfile.id} \cup {dsfile}

\* A constraint that lets every row in: C24 must not hold of it.
ViolatesNever(files, dsfile) == FALSE

\* the unique=True constraint on DatasetFile.filename: would saving dsfile
\* put two rows under one filename?
ViolatesUnique(files, dsfile) ==
    \E r \in files : r.id # dsfile.id /\ r.filename = dsfile.filename

\* An insert that stores only the first row of a batch: the round trip of
\* C1 must not hold of it.
SaveFirst(rows, batch) ==
    IF batch = <<>> THEN rows ELSE rows (+) SetToBag({batch[1]})

\* Model.save_many: table.insert_many(rows)
SaveMany(rows, batch) ==
    rows (+) [r \in {batch[i] : i \in 1..Len(batch)} |->
                 Cardinality({i \in 1..Len(batch) : batch[i] = r})]

(***************************************************************************)
(* FilesMixin.open                                                         *)
(***************************************************************************)
\* An open that never takes the mode for 'r': C10 must not hold of it.
IsReadNever(mode) == FALSE

\* mode == 'r'
IsRead(mode) == mode = <<"r">>

\* An open that replaces the file for any mode with 'w': C13 must not hold
\* of it.
IsWriteAny(mode) == InMode("w", mode)

\* An open that never replaces the file: C12 must not hold of it.
IsWriteNewNever(mode) == FALSE

\* An open that replaces the file for 'w' only: C6 must not hold of it.
IsWriteNewExact(mode) == mode = <<"w">>

\* mode in ('w', 'wb')
IsWriteNew(mode) == mode \in {<<"w">>, <<"w", "b">>}

\* any(v in mode for v in ('r', 'b', '+'))
IsReadOrAppend(mode) == \E c \in {"r", "b", "+"} : InMode(c, mode)

\* open(filename, mode) on the tables (files, rows) with nid the next
\* primary key: the tables after it, the handle it returns, how it ends
OpenCall(files, rows, nid, name, mode) ==
    LET dsfile == FindFirst(files, name)
        fail(res) == [files |-> files, rows |-> rows, nid |-> nid,
                      fl |-> NoHandle, res |-> res]
    IN  IF dsfile = NoFile
        THEN IF IsRead(mode)
             THEN fail("FileNotFoundError")
             ELSE LET new == [id |-> nid, filename |-> name, size |-> 0, parts |-> 0]
                  IN  [files |-> files \cup {new}, rows |-> rows, nid |-> nid + 1,
                       fl |-> FileLike(new, mode), res |-> "ok"]
        ELSE IF IsWriteNew(mode)
        THEN LET reset == [dsfile EXCEPT !.size = 0, !.parts = 0]
             IN  [files |-> Upsert(files, reset),
                  rows |-> DeleteParts(rows, dsfile.id), nid |-> nid,
                  fl |-> FileLike(reset, mode), res |-> "ok"]
        ELSE IF IsReadOrAppend(mode)
        THEN [files |-> files, rows |-> rows, nid |-> nid,
              fl |-> FileLike(dsfile, mode), res |-> "ok"]
        ELSE fail("ValueError")

\* open(filename, mode), the handle kept in slot h
Open(h, name, mode) ==
    /\ Called
    /\ UNCHANGED threads
    /\ \E c \in {OpenCall(dsfiles, dsparts, nextId, name, mode)} :
        /\ c.nid <= MaxId + 1
        /\ dsfiles' = c.files
        /\ dsparts' = c.rows
        /\ nextId' = c.nid
        /\ handles' = IF c.res = "ok" THEN [handles EXCEPT ![h] = c.fl] ELSE handles
        /\ last' = [Call("open", name, h, mode, <<>>, c.res, c.fl.file.id)
                      EXCEPT !.before = FindFirst(dsfiles, name)]

(***************************************************************************)
(* FileLike.truncate and FileLike.write                                    *)
(***************************************************************************)
\* A read that gives one byte at most: C20 must not hold of it.
TakeOne(s, n) == SubSeq(s, 1, IF Len(s) < 1 THEN Len(s) ELSE 1)

\* A read that gives all the bytes left whatever n is: C31 must not hold of
\* it.
TakeAll(s, n) == s

\* BytesIO.read(n), n > 0: the next n bytes, fewer at the end
Take(s, n) == SubSeq(s, 1, IF Len(s) < n THEN Len(s) ELSE n)

\* what BytesIO.read(n) leaves to be read
Drop(s, n) == SubSeq(s, (IF Len(s) < n THEN Len(s) ELSE n) + 1, Len(s))

\* DatasetFilePart(file_id=, part_no=, data=)
Part(id, no, data) == [file_id |-> id, part_no |-> no, data |-> data]

\* A loop that submits a batch only when it holds more than batchsize
\* parts: C29 must not hold of it.
RECURSIVE WriteLoopLate(_, _, _, _, _, _, _, _)
WriteLoopLate(left, cs, bs, id, part_no, size, buffer, tasks) ==
    LET part_data == SubSeq(left, 1, IF Len(left) < cs THEN Len(left) ELSE cs)
        rest == SubSeq(left, Len(part_data) + 1, Len(left))
        filled == Append(buffer, [file_id |-> id, part_no |-> part_no,
                                  data |-> part_data])
    IN  IF part_data = <<>>
        THEN [tasks |-> IF Len(buffer) > 0 THEN Append(tasks, buffer) ELSE tasks,
              part_no |-> part_no, size |-> size]
        ELSE IF Len(filled) > bs
        THEN WriteLoopLate(rest, cs, bs, id, part_no + 1,
                           size + Len(part_data), <<>>, Append(tasks, filled))
        ELSE WriteLoopLate(rest, cs, bs, id, part_no + 1,
                           size + Len(part_data), filled, tasks)

\* The loop of FileLike.write over the bytes left to read: every chunk read
\* gets the next part number and joins the buffer; a buffer of batchsize
\* parts is submitted as one commit task; the rest is flushed at the end.
\* Gives the tasks submitted (each a batch of parts), part_no and size.
RECURSIVE WriteLoop(_, _, _, _, _, _, _, _)
WriteLoop(left, cs, bs, id, part_no, size, buffer, tasks) ==
    LET part_data == Take(left, cs)
        filled == Append(buffer, Part(id, part_no, part_data))
    IN  IF part_data = <<>>
        THEN [tasks |-> IF Len(buffer) > 0 THEN Append(tasks, buffer) ELSE tasks,
              part_no |-> part_no, size |-> size]
        ELSE IF Len(filled) >= bs
        THEN WriteLoop(Drop(left, cs), cs, bs, id, part_no + 1,
                       size + Len(part_data), <<>>, Append(tasks, filled))
        ELSE WriteLoop(Drop(left, cs), cs, bs, id, part_no + 1,
                       size + Len(part_data), filled, tasks)

\* The commit tasks run by the pool: _write_parts saves its batch, except
\* for the tasks in `failed`, whose insert raises; the exception stays in
\* the task's future, which write never reads.
RECURSIVE RunTasks(_, _, _, _)
RunTasks(rows, tasks, failed, i) ==
    IF i > Len(tasks) THEN rows
    ELSE RunTasks(IF i \in failed THEN rows ELSE SaveMany(rows, tasks[i]),
                  tasks, failed, i + 1)

\* A check that lets every handle write: C14 must not hold of it.
CheckWriteableAny(fl) == TRUE

\* FileLike._check_writeable
CheckWriteable(fl) == InMode("w", fl.mode)

\* A truncate that resets the counters and leaves the chunks in place: C16
\* must not hold of it.
TruncateKeepsParts(files, rows, fl) ==
    [files |-> Upsert(files, [fl.file EXCEPT !.size = 0, !.parts = 0]),
     rows |-> rows,
     fl |-> [fl EXCEPT !.file = [fl.file EXCEPT !.size = 0, !.parts = 0]],
     res |-> "ok"]

\* FileLike.truncate on the handle fl: the tables and the handle after it
TruncateCall(files, rows, fl) ==
    LET reset == [fl.file EXCEPT !.size = 0, !.parts = 0]
        cut == DeleteParts(rows, fl.file.id)
    IN  IF ~CheckWriteable(fl)
        THEN [files |-> files, rows |-> rows, fl |-> fl, res |-> "ValueError"]
        ELSE IF ViolatesUnique(files, reset)
        THEN [files |-> files, rows |-> cut, fl |-> [fl EXCEPT !.file = reset],
              res |-> "IntegrityError"]
        ELSE [files |-> Upsert(files, reset), rows |-> cut,
              fl |-> [fl EXCEPT !.file = reset], res |-> "ok"]

\* FileLike.write on the handle fl: the tables and the handle after it.
\* The `with ThreadPoolExecutor` block ends only when every task submitted
\* has run; then the handle's DatasetFile gets size and parts and is saved.
WriteCall(files, rows, fl, data, cs, bs, replace, failed) ==
    LET t == IF replace THEN TruncateCall(files, rows, fl)
             ELSE [files |-> files, rows |-> rows, fl |-> fl, res |-> "ok"]
        w == WriteLoop(data, cs, bs, t.fl.file.id, t.fl.file.parts,
                       t.fl.file.size, <<>>, <<>>)
        written == RunTasks(t.rows, w.tasks, failed, 1)
        dsfile == [t.fl.file EXCEPT !.size = w.size, !.parts = w.part_no]
    IN  IF ~CheckWriteable(fl)
        THEN [files |-> files, rows |-> rows, fl |-> fl, res |-> "ValueError",
              tasks |-> <<>>]
        ELSE IF t.res # "ok"
        THEN [files |-> t.files, rows |-> t.rows, fl |-> t.fl, res |-> t.res,
              tasks |-> <<>>]
        ELSE IF ViolatesUnique(t.files, dsfile)
        THEN [files |-> t.files, rows |-> written,
              fl |-> [t.fl EXCEPT !.file = dsfile], res |-> "IntegrityError",
              tasks |-> w.tasks]
        ELSE [files |-> Upsert(t.files, dsfile), rows |-> written,
              fl |-> [t.fl EXCEPT !.file = dsfile], res |-> "ok",
              tasks |-> w.tasks]

\* handle.truncate() on the handle in slot h
HTruncate(h) ==
    /\ Called
    /\ UNCHANGED threads
    /\ handles[h] # NoHandle
    /\ \E c \in {TruncateCall(dsfiles, dsparts, handles[h])} :
        /\ dsfiles' = c.files
        /\ dsparts' = c.rows
        /\ handles' = [handles EXCEPT ![h] = c.fl]
        /\ last' = [Call("truncate", c.fl.file.filename, h, c.fl.mode, <<>>,
                         c.res, c.fl.file.id)
                      EXCEPT !.before = FindFirst(dsfiles, c.fl.file.filename)]
        /\ UNCHANGED nextId

\* A write after which the handle still counts the size and the parts it
\* counted before: C36 must not hold of it.
HWriteStale(h, data, cs, bs, replace, failed) ==
    /\ Called
    /\ UNCHANGED threads
    /\ handles[h] # NoHandle
    /\ \E c \in {WriteCall(dsfiles, dsparts, handles[h], data, cs, bs, replace, failed)} :
        /\ failed \subseteq 1..Len(c.tasks)
        /\ BagCardinality(c.rows) <= MaxRows
        /\ c.fl.file.parts <= MaxRows
        /\ dsfiles' = c.files
        /\ dsparts' = c.rows
        /\ handles' = handles
        /\ last' = [Call("write", c.fl.file.filename, h, c.fl.mode, data,
                         c.res, c.fl.file.id)
                      EXCEPT !.before = FindFirst(dsfiles, c.fl.file.filename)]
        /\ UNCHANGED nextId

\* handle.write(data, chunksize=cs, batchsize=bs, replace=replace) on the
\* handle in slot h; the commit tasks numbered in `failed` raise
HWrite(h, data, cs, bs, replace, failed) ==
    /\ Called
    /\ UNCHANGED threads
    /\ handles[h] # NoHandle
    /\ \E c \in {WriteCall(dsfiles, dsparts, handles[h], data, cs, bs, replace, failed)} :
        /\ failed \subseteq 1..Len(c.tasks)
        /\ BagCardinality(c.rows) <= MaxRows
        /\ c.fl.file.parts <= MaxRows
        /\ dsfiles' = c.files
        /\ dsparts' = c.rows
        /\ handles' = [handles EXCEPT ![h] = c.fl]
        /\ last' = [Call("write", c.fl.file.filename, h, c.fl.mode, data,
                         c.res, c.fl.file.id)
                      EXCEPT !.before = FindFirst(dsfiles, c.fl.file.filename)]
        /\ UNCHANGED nextId

\* files.write(filename, data, mode): cls.open(filename, mode=mode).write(data)
FilesWrite(name, data, mode, failed) ==
    /\ Called
    /\ UNCHANGED threads
    /\ \E o \in {OpenCall(dsfiles, dsparts, nextId, name, mode)} :
       \E c \in {WriteCall(o.files, o.rows, o.fl, data, chunksize, write_batchsize,
                           FALSE, failed)} :
        /\ o.nid <= MaxId + 1
        /\ IF o.res # "ok"
           THEN /\ failed = {}
                /\ UNCHANGED <<dsfiles, dsparts, nextId>>
                /\ last' = [Call("files.write", name, 0, mode, data, o.res, 0)
                              EXCEPT !.before = FindFirst(dsfiles, name)]
           ELSE /\ failed \subseteq 1..Len(c.tasks)
                /\ BagCardinality(c.rows) <= MaxRows
                /\ c.fl.file.parts <= MaxRows
                /\ dsfiles' = c.files
                /\ dsparts' = c.rows
                /\ nextId' = o.nid
                /\ last' = [Call("files.write", name, 0, mode, data, c.res,
                                 c.fl.file.id)
                              EXCEPT !.before = FindFirst(dsfiles, name)]
        /\ UNCHANGED handles

\* the default of put's mode argument
put_mode == ModeRW

\* put(data, filename, mode) on the tables: cls.open(filename, mode) gives
\* a handle, the `with` statement enters it, which opens the filename once
\* more in the same mode and binds that second handle to fout; fout.write
\* (data) runs with the defaults; leaving the block closes the first
\* handle, which has no read buffer; fout is returned.
PutCall(files, rows, nid, name, data, mode, failed) ==
    LET o == OpenCall(files, rows, nid, name, mode)
        fout == OpenCall(o.files, o.rows, o.nid, name, mode)
        w == WriteCall(fout.files, fout.rows, fout.fl, data, chunksize,
                       write_batchsize, FALSE, failed)
    IN  IF o.res # "ok"
        THEN [files |-> o.files, rows |-> o.rows, nid |-> o.nid, fl |-> NoHandle,
              res |-> o.res, tasks |-> <<>>]
        ELSE IF fout.res # "ok"
        THEN [files |-> fout.files, rows |-> fout.rows, nid |-> fout.nid,
              fl |-> NoHandle, res |-> fout.res, tasks |-> <<>>]
        ELSE [files |-> w.files, rows |-> w.rows, nid |-> fout.nid,
              fl |-> IF w.res = "ok" THEN w.fl ELSE NoHandle,
              res |-> w.res, tasks |-> w.tasks]

\* fout = put(data, filename, mode), the handle returned kept in slot h
Put(h, name, data, mode, failed) ==
    /\ Called
    /\ UNCHANGED threads
    /\ \E c \in {PutCall(dsfiles, dsparts, nextId, name, data, mode, failed)} :
        /\ c.nid <= MaxId + 1
        /\ failed \subseteq 1..Len(c.tasks)
        /\ BagCardinality(c.rows) <= MaxRows
        /\ c.fl.file.parts <= MaxRows
        /\ dsfiles' = c.files
        /\ dsparts' = c.rows
        /\ nextId' = c.nid
        /\ handles' = IF c.res = "ok" THEN [handles EXCEPT ![h] = c.fl] ELSE handles
        /\ last' = [Call("put", name, h, mode, data, c.res, c.fl.file.id)
                      EXCEPT !.before = FindFirst(dsfiles, name)]

(***************************************************************************)
(* FilesMixin.remove and FilesMixin.exists                                 *)
(***************************************************************************)
\* remove(filename, errors) on the tables: the tables after it, how it ends.
\* With no row and errors false the code goes on to read dsfile.id of None.
RemoveCall(files, rows, name, errors) ==
    LET dsfile == FindFirst(files, name)
    IN  IF dsfile = NoFile /\ errors
        THEN [files |-> files, rows |-> rows, res |-> "FileNotFoundError", id |-> 0]
        ELSE IF dsfile = NoFile
        THEN [files |-> files, rows |-> rows, res |-> "AttributeError", id |-> 0]
        ELSE [files |-> DeleteFile(files, dsfile.id),
              rows |-> DeleteParts(rows, dsfile.id), res |-> "ok", id |-> dsfile.id]

\* files.remove(filename, errors)
Remove(name, errors) ==
    /\ Called
    /\ UNCHANGED threads
    /\ \E c \in {RemoveCall(dsfiles, dsparts, name, errors)} :
        /\ dsfiles' = c.files
        /\ dsparts' = c.rows
        /\ last' = [Call("remove", name, 0, <<>>, <<>>, c.res, c.id)
                      EXCEPT !.before = FindFirst(dsfiles, name)]
        /\ UNCHANGED <<nextId, handles>>

\* FileLike.close on the handle fl: a read buffer is closed and dropped
CloseCall(fl) ==
    IF fl.readbuffer # NoBuffer THEN [fl EXCEPT !.readbuffer = NoBuffer] ELSE fl

\* handle.remove() on the handle in slot h: no mode is checked (force), the
\* handle is closed, then remove(filename) of the record's class is called
\* with the handle's filename; the handle keeps its record
HRemove(h) ==
    /\ Called
    /\ UNCHANGED threads
    /\ handles[h] # NoHandle
    /\ \E c \in {RemoveCall(dsfiles, dsparts, handles[h].file.filename, TRUE)} :
        /\ dsfiles' = c.files
        /\ dsparts' = c.rows
        /\ handles' = [handles EXCEPT ![h] = CloseCall(handles[h])]
        /\ last' = [Call("hremove", handles[h].file.filename, h, handles[h].mode,
                         <<>>, c.res, c.id)
                      EXCEPT !.before = FindFirst(dsfiles, handles[h].file.filename)]
        /\ UNCHANGED nextId

\* exists(filename)
ExistsCall(files, name) == FindFirst(files, name) # NoFile

\* find(pattern) for the pattern '*': every filename of the table
ListCall(files) == {r.filename : r \in files}

(***************************************************************************)
(* FileLike.read                                                           *)
(***************************************************************************)
\* range(0, parts, batchsize): the start_no of each job
ReadJobs(nparts, bs) ==
    [i \in 1..((nparts + bs - 1) \div bs) |-> (i - 1) * bs]

\* find(file_id=, part_no__between=(start_no, stop_no)): the matching rows
PartsBetween(rows, id, start_no, stop_no) ==
    LET match == {r \in BagToSet(rows) :
                    r.file_id = id /\ start_no <= r.part_no /\ r.part_no <= stop_no}
    IN  [r \in match |-> rows[r]]

\* order_by='part_no': every order of the rows the database may give, rows
\* of one part_no in any order
RECURSIVE OrderByPartNo(_)
OrderByPartNo(rows) ==
    IF rows = EmptyBag THEN {<<>>}
    ELSE LET first == {r \in BagToSet(rows) :
                         \A q \in BagToSet(rows) : r.part_no <= q.part_no}
         IN  UNION {{<<r>> \o rest : rest \in OrderByPartNo(rows (-) SetToBag({r}))} :
                      r \in first}

\* b''.join(data)
RECURSIVE Join(_)
Join(data) == IF data = <<>> THEN <<>> ELSE Head(data) \o Join(Tail(data))

\* _read_part(job): what the task may return, (start_no, data), or that it
\* raises FileNotFoundError because the range holds no row
ReadPart(rows, id, start_no, bs) ==
    LET found == PartsBetween(rows, id, start_no, start_no + bs - 1)
    IN  IF found = EmptyBag
        THEN {[start_no |-> start_no, data |-> <<>>, ok |-> FALSE]}
        ELSE {[start_no |-> start_no,
               data |-> [i \in 1..Len(o) |-> o[i].data], ok |-> TRUE] :
                 o \in OrderByPartNo(found)}

\* tp.map(_read_part, jobs): the tasks finish in the order `order`, and map
\* yields each job's result in the order of the jobs
TpMap(finished, order) ==
    [i \in 1..Len(finished) |->
        finished[CHOOSE k \in 1..Len(order) : order[k] = i]]

\* sorted(results, key=lambda v: v[0])
RECURSIVE SortByStart(_)
SortByStart(results) ==
    IF results = <<>> THEN <<>>
    ELSE LET rest == SortByStart(Tail(results))
             before == SelectSeq(rest, LAMBDA r : r.start_no < Head(results).start_no)
             after == SelectSeq(rest, LAMBDA r : r.start_no >= Head(results).start_no)
         IN  before \o <<Head(results)>> \o after

\* A buffer filled with the batches last to first: C7 must not hold of it.
RECURSIVE CombineReversed(_)
CombineReversed(results) ==
    IF results = <<>> THEN <<>>
    ELSE CombineReversed(Tail(results)) \o Join(Head(results).data)

\* the bytes written to the buffer: b''.join(part_data) of each batch
RECURSIVE Combine(_)
Combine(results) ==
    IF results = <<>> THEN <<>>
    ELSE Join(Head(results).data) \o Combine(Tail(results))

\* the orders in which the tasks numbered in S may finish
RECURSIVE Orders(_)
Orders(S) ==
    IF S = {} THEN {<<>>}
    ELSE UNION {{<<i>> \o rest : rest \in Orders(S \ {i})} : i \in S}

Perms(n) == Orders(1..n)

\* one outcome for each task: every choice of one element from each set
RECURSIVE Outcomes(_)
Outcomes(each) ==
    IF each = <<>> THEN {<<>>}
    ELSE {<<r>> \o rest : r \in Head(each), rest \in Outcomes(Tail(each))}

\* _read_full: every buffer the read of the handle's file may build when its
\* tasks finish in the order `order`; not ok when a task raised
ReadFull(rows, fl, bs, order) ==
    LET jobs == ReadJobs(fl.file.parts, bs)
        n == Len(jobs)
        each == [i \in 1..n |-> ReadPart(rows, fl.file.id, jobs[i], bs)]
        runs == Outcomes(each)
    IN  {LET finished == [k \in 1..n |-> f[order[k]]]
             results == SortByStart(TpMap(finished, order))
         IN  IF \E i \in 1..n : ~f[i].ok
             THEN [ok |-> FALSE, buf |-> <<>>]
             ELSE [ok |-> TRUE, buf |-> Combine(results)] : f \in runs}

\* FileLike._check_readable
CheckReadable(fl) == InMode("r", fl.mode)

\* BytesIO.read(size) at position pos: the bytes returned
BufferRead(buf, pos, size) ==
    IF pos >= Len(buf) THEN <<>>
    ELSE IF size < 0 THEN SubSeq(buf, pos + 1, Len(buf))
    ELSE SubSeq(buf, pos + 1, IF pos + size > Len(buf) THEN Len(buf) ELSE pos + size)

\* FileLike.read on the handle fl: every way it may end, with the handle
\* after it and the bytes returned
ReadCall(rows, fl, size, bs, order) ==
    IF ~CheckReadable(fl)
    THEN {[fl |-> fl, res |-> "ValueError", data |-> <<>>]}
    ELSE IF fl.readbuffer = NoBuffer
    THEN {IF ~full.ok
          THEN [fl |-> [fl EXCEPT !.readbuffer = [open |-> TRUE, buf |-> <<>>, pos |-> 0]],
                res |-> "FileNotFoundError", data |-> <<>>]
          ELSE LET data == BufferRead(full.buf, fl.readpos, size)
               IN  [fl |-> [fl EXCEPT !.readbuffer =
                              [open |-> TRUE, buf |-> full.buf,
                               pos |-> fl.readpos + Len(data)]],
                    res |-> "ok", data |-> data] :
            full \in ReadFull(rows, fl, bs, order)}
    ELSE LET data == BufferRead(fl.readbuffer.buf, fl.readbuffer.pos, size)
         IN  {[fl |-> [fl EXCEPT !.readbuffer.pos = @ + Len(data)],
               res |-> "ok", data |-> data]}

\* handle.read(size, batchsize=bs) on the handle in slot h, the fetch tasks
\* finishing in the order `order`
HRead(h, size, bs, order) ==
    /\ Called
    /\ UNCHANGED threads
    /\ handles[h] # NoHandle
    /\ \E c \in ReadCall(dsparts, handles[h], size, bs, order) :
        /\ handles' = [handles EXCEPT ![h] = c.fl]
        /\ last' = [Call("read", c.fl.file.filename, h, c.fl.mode, c.data,
                         c.res, c.fl.file.id)
                      EXCEPT !.before = FindFirst(dsfiles, c.fl.file.filename),
                             !.order = order]
        /\ UNCHANGED <<dsfiles, dsparts, nextId>>

\* the sizes readchunks is called with
ChunkSizes == -1..MaxLen

\* The loop of readchunks from part_no on, `out` the chunks yielded so far
\* and read_size their length: objects.get gives a row of the part number
\* (any of them, should there be several) or raises ValueError when there
\* is none; the chunk is yielded, then counted, and the loop ends when the
\* count has reached a size that is not negative.
RECURSIVE ReadChunksLoop(_, _, _, _, _, _)
ReadChunksLoop(rows, fl, part_no, size, read_size, out) ==
    LET found == {r \in BagToSet(rows) :
                    r.file_id = fl.file.id /\ r.part_no = part_no}
    IN  IF part_no >= fl.file.parts THEN {[res |-> "ok", chunks |-> out]}
        ELSE IF found = {} THEN {[res |-> "ValueError", chunks |-> out]}
        ELSE UNION {IF read_size + Len(r.data) >= size /\ size > -1
                    THEN {[res |-> "ok", chunks |-> Append(out, r.data)]}
                    ELSE ReadChunksLoop(rows, fl, part_no + 1, size,
                                        read_size + Len(r.data),
                                        Append(out, r.data)) :
                      r \in found}

\* list(handle.readchunks(size)) on the handle fl: every way it may end,
\* with the chunks yielded
ReadChunksCall(rows, fl, size) ==
    IF ~CheckReadable(fl) THEN {[res |-> "ValueError", chunks |-> <<>>]}
    ELSE ReadChunksLoop(rows, fl, 0, size, 0, <<>>)

\* the caller takes every chunk of handle.readchunks(size), handle in slot h
HReadChunks(h, size) ==
    /\ Called
    /\ UNCHANGED threads
    /\ handles[h] # NoHandle
    /\ \E c \in ReadChunksCall(dsparts, handles[h], size) :
        /\ last' = [Call("readchunks", handles[h].file.filename, h,
                         handles[h].mode, c.chunks, c.res, handles[h].file.id)
                      EXCEPT !.before = FindFirst(dsfiles, handles[h].file.filename)]
        /\ UNCHANGED <<dsfiles, dsparts, nextId, handles>>

\* A seek that leaves a read buffer where it stands: C27 must not hold of
\* it.
SeekIgnoresBuffer(fl, pos) == [fl EXCEPT !.readpos = pos]

\* FileLike.seek on the handle fl: the position the first read will start
\* at is set, and a read buffer is moved there
SeekCall(fl, pos) ==
    IF fl.readbuffer # NoBuffer
    THEN [fl EXCEPT !.readpos = pos, !.readbuffer.pos = pos]
    ELSE [fl EXCEPT !.readpos = pos]

\* handle.seek(pos) on the handle in slot h
HSeek(h, pos) ==
    /\ Called
    /\ UNCHANGED threads
    /\ handles[h] # NoHandle
    /\ handles' = [handles EXCEPT ![h] = SeekCall(handles[h], pos)]
    /\ last' = [Call("seek", handles[h].file.filename, h, handles[h].mode, <<>>,
                     "ok", handles[h].file.id)
                  EXCEPT !.before = FindFirst(dsfiles, handles[h].file.filename)]
    /\ UNCHANGED <<dsfiles, dsparts, nextId>>

\* files.read(filename): cls.open(filename, mode='r').read(); every way it
\* may end
FilesReadCall(files, rows, nid, name) ==
    LET o == OpenCall(files, rows, nid, name, <<"r">>)
        jobs == ReadJobs(o.fl.file.parts, read_batchsize)
    IN  IF o.res # "ok" THEN {[res |-> o.res, data |-> <<>>]}
        ELSE {[res |-> c.res, data |-> c.data] :
                c \in ReadCall(rows, o.fl, -1, read_batchsize,
                               [i \in 1..Len(jobs) |-> i])}

\* files.read(filename)
FilesRead(name) ==
    /\ Called
    /\ UNCHANGED threads
    /\ \E c \in FilesReadCall(dsfiles, dsparts, nextId, name) :
        /\ last' = [Call("files.read", name, 0, <<"r">>, c.data, c.res, 0)
                      EXCEPT !.before = FindFirst(dsfiles, name)]
        /\ UNCHANGED <<dsfiles, dsparts, nextId, handles>>

(***************************************************************************)
(* FileLike.__enter__ and FileLike.__exit__                                *)
(***************************************************************************)
\* `with open(filename, mode) as h: h.read(size, batchsize=bs)`: open gives
\* a handle; entering the block calls its __enter__, which opens the
\* filename once more in the handle's mode and binds that second handle to
\* h; the body reads from h; leaving the block, also by an exception of the
\* body, calls __exit__ of the first handle, which closes the first handle.
\* Every way the block may end, with h as it is after the block.
WithReadCall(files, rows, nid, name, mode, size, bs) ==
    LET o == OpenCall(files, rows, nid, name, mode)
        e == OpenCall(o.files, o.rows, o.nid, name, mode)
        closed == CloseCall(o.fl)
    IN  IF o.res # "ok"
        THEN {[files |-> o.files, rows |-> o.rows, nid |-> o.nid, fl |-> NoHandle,
               res |-> o.res, data |-> <<>>]}
        ELSE IF e.res # "ok"
        THEN {[files |-> e.files, rows |-> e.rows, nid |-> e.nid, fl |-> NoHandle,
               res |-> e.res, data |-> <<>>]}
        ELSE {[files |-> e.files, rows |-> e.rows, nid |-> e.nid, fl |-> r.fl,
               res |-> r.res, data |-> r.data] :
                r \in UNION {ReadCall(e.rows, e.fl, size, bs, order) :
                               order \in Perms(Len(ReadJobs(e.fl.file.parts, bs)))}}

\* the with block on the filename, h kept in slot h after the block
WithRead(h, name, mode, size, bs) ==
    /\ Called
    /\ UNCHANGED threads
    /\ \E c \in WithReadCall(dsfiles, dsparts, nextId, name, mode, size, bs) :
        /\ c.nid <= MaxId + 1
        /\ dsfiles' = c.files
        /\ dsparts' = c.rows
        /\ nextId' = c.nid
        /\ handles' = IF c.fl # NoHandle THEN [handles EXCEPT ![h] = c.fl]
                       ELSE handles
        /\ last' = [Call("with", name, h, mode, c.data, c.res, c.fl.file.id)
                      EXCEPT !.before = FindFirst(dsfiles, name)]

\* FileLike.__enter__ on the handle fl: self.open(mode=self._mode), which is
\* open(filename, mode) of the record's class with the handle's filename and
\* mode; the handle it returns is the one the with statement binds
EnterCall(files, rows, nid, fl) ==
    OpenCall(files, rows, nid, fl.file.filename, fl.mode)

\* `with handle as h:` entered on the handle in slot h, which then holds the
\* handle bound by the statement
HEnter(h) ==
    /\ Called
    /\ UNCHANGED threads
    /\ handles[h] # NoHandle
    /\ \E c \in {EnterCall(dsfiles, dsparts, nextId, handles[h])} :
        /\ c.nid <= MaxId + 1
        /\ dsfiles' = c.files
        /\ dsparts' = c.rows
        /\ nextId' = c.nid
        /\ handles' = IF c.res = "ok" THEN [handles EXCEPT ![h] = c.fl] ELSE handles
        /\ last' = [Call("enter", handles[h].file.filename, h, handles[h].mode,
                         <<>>, c.res, handles[h].file.id)
                      EXCEPT !.before = FindFirst(dsfiles, handles[h].file.filename)]

(***************************************************************************)
(* Calls of several threads, one statement of the row store at a time      *)
(***************************************************************************)
\* open(filename, mode) after its query has given the row `seen` (NoFile
\* for None), on the tables as they are by now: the insert of a new row, or
\* the delete of the chunks and the upsert of the row reset, or the handle
\* alone; an insert or upsert the constraint refuses raises IntegrityError
OpenSeenCall(files, rows, nid, seen, name, mode) ==
    LET fail(res) == [files |-> files, rows |-> rows, nid |-> nid,
                      fl |-> NoHandle, res |-> res]
        new == [id |-> nid, filename |-> name, size |-> 0, parts |-> 0]
        reset == [seen EXCEPT !.size = 0, !.parts = 0]
    IN  IF seen = NoFile
        THEN IF IsRead(mode) THEN fail("FileNotFoundError")
             ELSE IF ViolatesUnique(files, new) THEN fail("IntegrityError")
             ELSE [files |-> files \cup {new}, rows |-> rows, nid |-> nid + 1,
                   fl |-> FileLike(new, mode), res |-> "ok"]
        ELSE IF IsWriteNew(mode)
        THEN IF ViolatesUnique(files, reset)
             THEN [files |-> files, rows |-> DeleteParts(rows, seen.id),
                   nid |-> nid, fl |-> NoHandle, res |-> "IntegrityError"]
             ELSE [files |-> Upsert(files, reset),
                   rows |-> DeleteParts(rows, seen.id), nid |-> nid,
                   fl |-> FileLike(reset, mode), res |-> "ok"]
        ELSE IF IsReadOrAppend(mode)
        THEN [files |-> files, rows |-> rows, nid |-> nid,
              fl |-> FileLike(seen, mode), res |-> "ok"]
        ELSE fail("ValueError")

\* thread t calls open(name, mode): the query for the row of the filename
ThreadOpenFind(t, name, mode) ==
    /\ threads[t].pc = "idle"
    /\ threads' = [threads EXCEPT ![t] =
                     [NoThread EXCEPT !.pc = "opening", !.name = name,
                                      !.mode = mode,
                                      !.seen = FindFirst(dsfiles, name)]]
    /\ UNCHANGED <<dsfiles, dsparts, nextId, handles, last, ncalls>>

\* thread t goes on in open with the row its query gave and gets a handle,
\* or an exception
ThreadOpenFinish(t) ==
    /\ threads[t].pc = "opening"
    /\ \E c \in {OpenSeenCall(dsfiles, dsparts, nextId, threads[t].seen,
                                threads[t].name, threads[t].mode)} :
        /\ c.nid <= MaxId + 1
        /\ dsfiles' = c.files
        /\ dsparts' = c.rows
        /\ nextId' = c.nid
        /\ threads' = [threads EXCEPT
                         ![t].pc = IF c.res = "ok" THEN "open" ELSE "done",
                         ![t].fl = c.fl, ![t].res = c.res]
        /\ last' = [Call("open", threads[t].name, t, threads[t].mode, <<>>,
                         c.res, c.fl.file.id)
                      EXCEPT !.before = threads[t].seen]
    /\ UNCHANGED <<handles, ncalls>>

\* the other threads that are in a write to the file id
Writing(t, id) ==
    {q \in Threads \ {t} : threads[q].pc = "writing" /\ threads[q].fl.file.id = id}

\* thread t calls write(data, chunksize=cs, batchsize=bs) on its handle:
\* the check of the mode, then the loop that cuts the bytes into parts and
\* submits the batches to the pool this call has made
ThreadWriteStart(t, data, cs, bs) ==
    /\ threads[t].pc = "open"
    /\ \E w \in {WriteLoop(data, cs, bs, threads[t].fl.file.id,
                            threads[t].fl.file.parts, threads[t].fl.file.size,
                            <<>>, <<>>)} :
        IF ~CheckWriteable(threads[t].fl)
        THEN threads' = [threads EXCEPT ![t].pc = "done", ![t].res = "ValueError"]
        ELSE threads' =
               [q \in Threads |->
                  IF q = t
                  THEN [threads[t] EXCEPT
                          !.pc = "writing", !.queue = w.tasks,
                          !.part_no = w.part_no, !.size = w.size,
                          !.overlap = Writing(t, threads[t].fl.file.id) # {}]
                  ELSE IF q \in Writing(t, threads[t].fl.file.id)
                  THEN [threads[q] EXCEPT !.overlap = TRUE]
                  ELSE threads[q]]
    /\ UNCHANGED <<dsfiles, dsparts, nextId, handles, last, ncalls>>

\* a worker of the pool of thread t's write takes the next task submitted;
\* the pool has max_workers workers
ThreadTaskStart(t) ==
    /\ threads[t].pc = "writing"
    /\ threads[t].queue # <<>>
    /\ Cardinality(threads[t].running) < max_workers
    /\ threads' = [threads EXCEPT
                     ![t].running = @ \cup {Head(threads[t].queue)},
                     ![t].queue = Tail(@)]
    /\ UNCHANGED <<dsfiles, dsparts, nextId, handles, last, ncalls>>

\* _write_parts of a task a worker runs: save_many of its batch and commit
ThreadTaskFinish(t, task) ==
    /\ threads[t].pc = "writing"
    /\ task \in threads[t].running
    /\ BagCardinality(dsparts) + Len(task) <= MaxRows
    /\ dsparts' = SaveMany(dsparts, task)
    /\ threads' = [threads EXCEPT ![t].running = @ \ {task}]
    /\ UNCHANGED <<dsfiles, nextId, handles, last, ncalls>>

\* the pool of thread t's write has run every task: size and parts are set
\* on the handle's DatasetFile and it is saved
ThreadWriteSave(t) ==
    /\ threads[t].pc = "writing"
    /\ threads[t].queue = <<>> /\ threads[t].running = {}
    /\ \E dsfile \in {[threads[t].fl.file EXCEPT !.size = threads[t].size,
                                                !.parts = threads[t].part_no]} :
       \E res \in {IF ViolatesUnique(dsfiles, dsfile) THEN "IntegrityError" ELSE "ok"} :
        /\ dsfiles' = IF res = "ok" THEN Upsert(dsfiles, dsfile) ELSE dsfiles
        /\ threads' = [threads EXCEPT ![t].pc = "done", ![t].fl.file = dsfile,
                                      ![t].res = res]
        /\ last' = [Call("write", threads[t].name, t, threads[t].mode, <<>>,
                         res, dsfile.id)
                      EXCEPT !.before = FindFirst(dsfiles, threads[t].name)]
    /\ UNCHANGED <<dsparts, nextId, handles, ncalls>>

(***************************************************************************)
(* FilesMixin.find and FilesMixin.list                                     *)
(***************************************************************************)
\* pattern.replace('*', '%')
Replace(pattern, from, to) ==
    [i \in 1..Len(pattern) |-> IF pattern[i] = from THEN to ELSE pattern[i]]

\* filename LIKE pattern, as the SQL row store matches it, from character i
\* of the pattern and character j of the name on: '%' stands for any run
\* of characters, '_' for any one character, every other character for
\* itself
RECURSIVE Like(_, _, _, _)
Like(pattern, name, i, j) ==
    IF i > Len(pattern) THEN j > Len(name)
    ELSE IF pattern[i] = "%"
    THEN \/ Like(pattern, name, i + 1, j)
         \/ j <= Len(name) /\ Like(pattern, name, i, j + 1)
    ELSE IF pattern[i] = "_"
    THEN j <= Len(name) /\ Like(pattern, name, i + 1, j + 1)
    ELSE /\ j <= Len(name) /\ name[j] = pattern[i]
         /\ Like(pattern, name, i + 1, j + 1)

\* find(pattern): the list of the filenames of the rows the query gives,
\* one entry for each row, in every order the store may give the rows in
FindCall(files, pattern) ==
    LET like == Replace(pattern, "*", "%")
        rows == {r \in files : Like(like, r.filename, 1, 1)}
    IN  {[i \in 1..Len(o) |-> o[i].filename] : o \in Orders(rows)}

\* find(pattern)
Find(pattern) ==
    /\ Called
    /\ UNCHANGED threads
    /\ \E c \in FindCall(dsfiles, pattern) :
        /\ last' = Call("find", pattern, 0, <<>>, c, "ok", 0)
        /\ UNCHANGED <<dsfiles, dsparts, nextId, handles>>

\* list(): cls.find('*')
List ==
    /\ Called
    /\ UNCHANGED threads
    /\ \E c \in FindCall(dsfiles, <<"*">>) :
        /\ last' = Call("list", <<"*">>, 0, <<>>, c, "ok", 0)
        /\ UNCHANGED <<dsfiles, dsparts, nextId, handles>>

Init ==
    /\ dsfiles = {}
    /\ dsparts = EmptyBag
    /\ nextId = 1
    /\ handles = [h \in Handles |-> NoHandle]
    /\ last = Call("init", "", 0, <<>>, <<>>, "ok", 0)
    /\ ncalls = 0
    /\ threads = [t \in Threads |-> NoThread]

\* The calls a caller makes, one at a time, every commit task succeeding
\* (the batch size of a write then only groups the inserts, so writes are
\* made with the default one).
Next ==
    \/ \E h \in Handles, name \in Names, mode \in OpenModes : Open(h, name, mode)
    \/ \E h \in Handles : HTruncate(h)
    \/ \E h \in Handles, data \in Data, cs \in 1..chunksize,
          replace \in BOOLEAN :
            HWrite(h, data, cs, write_batchsize, replace, {})
    \/ \E name \in Names, data \in Data, mode \in Modes :
            FilesWrite(name, data, mode, {})
    \/ \E h \in Handles, name \in Names, data \in Data :
            Put(h, name, data, put_mode, {})
    \/ \E name \in Names, errors \in BOOLEAN : Remove(name, errors)
    \/ \E h \in Handles : HRemove(h)
    \/ \E h \in Handles, size \in ReadSizes, bs \in 1..read_batchsize :
          \E order \in Perms(Len(ReadJobs(handles[h].file.parts, bs))) :
            HRead(h, size, bs, order)
    \/ \E name \in Names : FilesRead(name)

Spec == Init /\ [][Next]_vars

\* The same calls where the batch insert of any commit task may raise.
NextFault ==
    \/ \E h \in Handles, name \in Names, mode \in OpenModes : Open(h, name, mode)
    \/ \E h \in Handles : HTruncate(h)
    \/ \E h \in Handles, data \in Data, cs \in 1..chunksize,
          bs \in 1..write_batchsize, replace \in BOOLEAN,
          failed \in SUBSET (1..MaxLen) :
            HWrite(h, data, cs, bs, replace, failed)
    \/ \E name \in Names, data \in Data, mode \in Modes,
          failed \in SUBSET (1..MaxLen) :
            FilesWrite(name, data, mode, failed)
    \/ \E h \in Handles, name \in Names, data \in Data,
          failed \in SUBSET (1..MaxLen) :
            Put(h, name, data, put_mode, failed)
    \/ \E name \in Names, errors \in BOOLEAN : Remove(name, errors)
    \/ \E h \in Handles : HRemove(h)
    \/ \E h \in Handles, size \in ReadSizes, bs \in 1..read_batchsize :
          \E order \in Perms(Len(ReadJobs(handles[h].file.parts, bs))) :
            HRead(h, size, bs, order)
    \/ \E name \in Names : FilesRead(name)

SpecFault == Init /\ [][NextFault]_vars

\* The tables as an earlier run of the program left them: that run made one
\* call, files.write('a', data) in mode 'w' with some bytes, and ended. No
\* handle is open and no call has been made yet.
InitStored ==
    \E data \in Data \ {<<>>} :
      \E o \in {OpenCall({}, EmptyBag, 1, "a", ModeW)} :
      \E c \in {WriteCall(o.files, o.rows, o.fl, data, chunksize, write_batchsize,
                          FALSE, {})} :
        /\ dsfiles = c.files
        /\ dsparts = c.rows
        /\ nextId = o.nid
        /\ handles = [h \in Handles |-> NoHandle]
        /\ last = Call("init", "", 0, <<>>, <<>>, "ok", 0)
        /\ ncalls = 0
        /\ threads = [t \in Threads |-> NoThread]

\* The calls of Next on tables that already hold a file.
SpecStored == InitStored /\ [][Next]_vars

\* Each thread opens a filename and writes to the handle it got, the
\* statements of the threads in any order.
NextRace ==
    \/ \E t \in Threads, name \in Names, mode \in {ModeR, ModeW, ModeRW} :
            ThreadOpenFind(t, name, mode)
    \/ \E t \in Threads : ThreadOpenFinish(t)
    \/ \E t \in Threads, data \in Data, cs \in 1..chunksize,
          bs \in 1..write_batchsize :
            ThreadWriteStart(t, data, cs, bs)
    \/ \E t \in Threads : ThreadTaskStart(t)
    \/ \E t \in Threads : \E task \in threads[t].running :
            ThreadTaskFinish(t, task)
    \/ \E t \in Threads : ThreadWriteSave(t)

SpecRace == Init /\ [][NextRace]_vars

\* Files are written and removed, and read inside with blocks and from
\* handles the caller opens and positions.
NextScoped ==
    \/ \E h \in Handles, name \in Names, mode \in {ModeR, ModeRW} :
            Open(h, name, mode)
    \/ \E h \in Handles, pos \in 0..MaxLen : HSeek(h, pos)
    \/ \E h \in Handles, size \in ChunkSizes : HReadChunks(h, size)
    \/ \E name \in Names, data \in Data, mode \in Modes :
            FilesWrite(name, data, mode, {})
    \/ \E name \in Names : Remove(name, TRUE)
    \/ \E h \in Handles, name \in Names, mode \in OpenModes,
          size \in ReadSizes, bs \in 1..read_batchsize :
            WithRead(h, name, mode, size, bs)
    \/ \E h \in Handles, size \in ReadSizes, bs \in 1..read_batchsize :
          \E order \in Perms(Len(ReadJobs(handles[h].file.parts, bs))) :
            HRead(h, size, bs, order)

SpecScoped == InitStored /\ [][NextScoped]_vars

\* the patterns find is called with: a prefix with no '*' and no '%', then
\* '*'
Patterns == {p \o <<"*">> : p \in CharNames \cup {<<>>}}

\* Files are created under filenames spelled out, and looked up by pattern.
NextFind ==
    \/ \E h \in Handles, name \in CharNames, mode \in {ModeW, ModeR} :
            Open(h, name, mode)
    \/ \E name \in CharNames : Remove(name, TRUE)
    \/ \E pattern \in Patterns : Find(pattern)
    \/ List

SpecFind == Init /\ [][NextFind]_vars

\* A caller opens a file, writes to the handle and truncates it, enters the
\* handle's context and reads.
NextEnter ==
    \/ \E h \in Handles, name \in Names, mode \in OpenModes : Open(h, name, mode)
    \/ \E h \in Handles : HTruncate(h)
    \/ \E h \in Handles, data \in Data, cs \in 1..chunksize :
            HWrite(h, data, cs, write_batchsize, FALSE, {})
    \/ \E h \in Handles : HEnter(h)
    \/ \E h \in Handles, size \in ReadSizes, bs \in 1..read_batchsize :
          \E order \in Perms(Len(ReadJobs(handles[h].file.parts, bs))) :
            HRead(h, size, bs, order)

SpecEnter == Init /\ [][NextEnter]_vars

(***************************************************************************)
(* What a file holds.                                                      *)
(***************************************************************************)
\* the payloads of a bag of chunk rows joined in increasing part number:
\* every result the order of rows of one part number allows
InPartOrder(rows) ==
    {Join([i \in 1..Len(o) |-> o[i].data]) : o \in OrderByPartNo(rows)}

\* the bytes of the file with primary key id
Content(rows, id) == InPartOrder(FindParts(rows, id))

\* size is the sum of the lengths of the chunks, parts their number, and
\* the part numbers are exactly 0..parts-1, each once
FileRecordInvariant(dsfile, rows) ==
    LET chunks == FindParts(rows, dsfile.id)
    IN  /\ dsfile.parts = BagCardinality(chunks)
        /\ \A c \in Content(rows, dsfile.id) : dsfile.size = Len(c)
        /\ {r.part_no : r \in BagToSet(chunks)} = 0..(dsfile.parts - 1)
        /\ \A r \in BagToSet(chunks) : chunks[r] = 1
        /\ \A r, q \in BagToSet(chunks) : r.part_no = q.part_no => r = q

\* the filename has a row, and the row and its chunks are as a write left them
Holds(name) ==
    /\ FindFirst(dsfiles, name) # NoFile
    /\ FileRecordInvariant(FindFirst(dsfiles, name), dsparts)

\* the handle in slot h has the DatasetFile row as the table has it now
Current(h) ==
    /\ handles[h] # NoHandle
    /\ handles[h].file = FindFirst(dsfiles, handles[h].file.filename)

\* the step is a call of op on the filename, in the mode, with the payload
Calls(op, name, mode, data) ==
    last'.op = op /\ last'.name = name /\ last'.mode = mode /\ last'.data = data

(***************************************************************************)
(* Round trip                                                              *)
(***************************************************************************)
\* C1: after files.write(name, data) in mode 'w' has returned, for every
\* payload (empty, one byte, exactly one chunk, one chunk and a byte),
\* files.read(name) returns exactly data.
C1_RoundTrip ==
    (last.op = "files.write" /\ last.mode = ModeW) =>
        /\ last.res = "ok"
        /\ FilesReadCall(dsfiles, dsparts, nextId, last.name)
             = {[res |-> "ok", data |-> last.data]}

\* a payload of one chunk and a byte was written in mode 'w' over a file
\* that held other bytes, and is read back
C1_Witness ==
    /\ last.op = "files.write" /\ last.mode = ModeW /\ last.res = "ok"
    /\ Len(last.data) = chunksize + 1
    /\ last.before.size = 1
    /\ [res |-> "ok", data |-> last.data]
         \in FilesReadCall(dsfiles, dsparts, nextId, last.name)

(***************************************************************************)
(* Commit tasks                                                            *)
(***************************************************************************)
\* C2: once a write has returned, the file record counts only chunks that
\* are stored: an open or read of the filename that starts then finds a
\* chunk for every part number in [0, parts).
C2_ReadAfterWrite ==
    (last.op \in {"write", "files.write"} /\ last.res = "ok") =>
        LET dsfile == FindFirst(dsfiles, last.name)
        IN  \A n \in 0..(dsfile.parts - 1) :
                \E r \in BagToSet(dsparts) :
                    r.file_id = dsfile.id /\ r.part_no = n

\* C3: a write one of whose commit tasks raises fails as a whole, and the
\* file record's parts does not count a chunk of a task that raised.
C3_FailedTaskFailsWrite ==
    [][\A h \in Handles, data \in Data, cs \in 1..chunksize,
          bs \in 1..write_batchsize, replace \in BOOLEAN,
          failed \in SUBSET (1..MaxLen) :
            (failed # {} /\ HWrite(h, data, cs, bs, replace, failed)) =>
                /\ last'.res # "ok"
                /\ LET c == WriteCall(dsfiles, dsparts, handles[h], data, cs,
                                      bs, replace, failed)
                       dsfile == FindFirst(dsfiles', last'.name)
                   IN  \A i \in failed : \A k \in 1..Len(c.tasks[i]) :
                           dsfile.parts <= c.tasks[i][k].part_no]_vars

(***************************************************************************)
(* The file record                                                         *)
(***************************************************************************)
\* C4: after any sequence of calls made one at a time, through any handles,
\* every file record has size the sum of the lengths of its chunks, parts
\* the number of its chunks, and its chunks numbered exactly 0..parts-1.
C4_FileRecord == \A dsfile \in dsfiles : FileRecordInvariant(dsfile, dsparts)

(***************************************************************************)
(* Append and overwrite                                                    *)
(***************************************************************************)
\* after the append of data to the file that held the bytes A: the write
\* returned, a read returns A and then data, the rows A had are all still
\* there, and the rows added are numbered from A's parts on, each once, and
\* hold data
Appended(name, data) ==
    LET dsfile == FindFirst(dsfiles, name)
        after == FindFirst(dsfiles', name)
        old == FindParts(dsparts, dsfile.id)
        new == FindParts(dsparts', dsfile.id)
        added == new (-) old
    IN  /\ last'.res = "ok"
        /\ after.id = dsfile.id
        /\ \A A \in InPartOrder(old) :
             FilesReadCall(dsfiles', dsparts', nextId', name)
               = {[res |-> "ok", data |-> A \o data]}
        /\ old \sqsubseteq new
        /\ {r.part_no : r \in BagToSet(added)} = dsfile.parts..(after.parts - 1)
        /\ BagCardinality(added) = after.parts - dsfile.parts
        /\ InPartOrder(added) = {data}

\* C5: when a file holds A, opening its filename in mode 'w+' and writing B
\* (files.write in mode 'w+', or open and then write on the handle) makes
\* read return A+B, numbers B's parts from A's parts on, and keeps A's parts
\* with their numbers and data.
C5_Append ==
    [][/\ \A name \in Names, data \in Data :
            (/\ Calls("files.write", name, ModeWPlus, data) /\ Holds(name)
             /\ FilesWrite(name, data, ModeWPlus, {}))
                => Appended(name, data)
       /\ \A h \in Handles, data \in Data, cs \in 1..chunksize,
             bs \in 1..write_batchsize :
            (/\ Calls("write", handles[h].file.filename, ModeWPlus, data)
             /\ Current(h) /\ handles[h].mode = ModeWPlus
             /\ Holds(handles[h].file.filename)
             /\ HWrite(h, data, cs, bs, FALSE, {}))
                => Appended(handles[h].file.filename, data)]_vars

\* bytes were appended in mode 'w+' to a file that held bytes
C5_Witness ==
    /\ last.op \in {"files.write", "write"} /\ last.mode = ModeWPlus
    /\ last.res = "ok"
    /\ last.before.size > 0 /\ Len(last.data) > 1
    /\ FindFirst(dsfiles, last.name).size = last.before.size + Len(last.data)
    /\ FindFirst(dsfiles, last.name).parts > last.before.parts

\* after the file with primary key id was overwritten with data: the write
\* returned, a read returns data, the record is the same row, and its
\* chunks are those of data alone, numbered from 0
Overwritten(name, id, data) ==
    LET after == FindFirst(dsfiles', name)
    IN  /\ last'.res = "ok"
        /\ after.id = id
        /\ FilesReadCall(dsfiles', dsparts', nextId', name)
             = {[res |-> "ok", data |-> data]}
        /\ Content(dsparts', id) = {data}
        /\ FileRecordInvariant(after, dsparts')

\* C6: when a file exists, opening its filename in mode 'w' or 'wb' and
\* writing B (files.write in that mode, or open and then write on the
\* handle) makes read return exactly B; no chunk of what the file held
\* remains and B's parts are numbered from 0.
C6_Overwrite ==
    [][/\ \A name \in Names, data \in Data, mode \in {ModeW, ModeWB} :
            (/\ Calls("files.write", name, mode, data)
             /\ FindFirst(dsfiles, name) # NoFile
             /\ FilesWrite(name, data, mode, {}))
                => Overwritten(name, FindFirst(dsfiles, name).id, data)
       /\ \A h \in Handles, data \in Data, cs \in 1..chunksize,
             bs \in 1..write_batchsize, replace \in BOOLEAN :
            (/\ Calls("write", last.name, last.mode, data)
             /\ last.op = "open" /\ last.h = h /\ last.res = "ok"
             /\ last.mode \in {ModeW, ModeWB} /\ last.before # NoFile
             /\ HWrite(h, data, cs, bs, replace, {}))
                => Overwritten(last.name, last.id, data)]_vars

\* a file that held bytes was overwritten in mode 'wb' with fewer bytes
C6_Witness ==
    /\ last.op = "files.write" /\ last.mode = ModeWB /\ last.res = "ok"
    /\ last.before.parts > 1
    /\ last.data # <<>> /\ Len(last.data) < last.before.size
    /\ FindFirst(dsfiles, last.name).size = Len(last.data)

(***************************************************************************)
(* Read                                                                    *)
(***************************************************************************)
\* C7: whatever the order in which the fetch tasks of a read finished (the
\* order the call record holds), the buffer the read builds is the payloads
\* of the chunks it fetched joined in increasing part number, and the same
\* as when the tasks finish in the order of their jobs; for a file whose
\* record is as a write left it, that is the bytes of the file.
C7_ReadOrder ==
    [][\A h \in Handles, size \in ReadSizes, bs \in 1..read_batchsize :
            (/\ last'.op = "read" /\ last'.res = "ok" /\ last'.h = h
             /\ handles[h].readbuffer = NoBuffer
             /\ Len(last'.order) = Len(ReadJobs(handles[h].file.parts, bs))
             /\ HRead(h, size, bs, last'.order))
                => LET fl == handles[h]
                       stop_no == Len(ReadJobs(fl.file.parts, bs)) * bs - 1
                       buf == handles'[h].readbuffer.buf
                   IN  /\ buf \in InPartOrder(
                                PartsBetween(dsparts, fl.file.id, 0, stop_no))
                       /\ FileRecordInvariant(fl.file, dsparts)
                            => Content(dsparts, fl.file.id) = {buf}
                       /\ ReadFull(dsparts, fl, bs, last'.order)
                            = ReadFull(dsparts, fl, bs,
                                       [i \in 1..Len(last'.order) |-> i])]_vars

\* a read of three chunks whose fetch tasks finished last first built the
\* buffer
C7_Witness ==
    /\ last.op = "read" /\ last.res = "ok"
    /\ Len(last.order) > 1 /\ last.order[1] = Len(last.order)
    /\ handles[last.h].file.parts = 3
    /\ handles[last.h].readbuffer.open
    /\ handles[last.h].readbuffer.buf = <<1, 2, 3>>

(***************************************************************************)
(* Remove and open                                                         *)
(***************************************************************************)
\* C8: remove of a filename that has no record raises FileNotFoundError
\* when errors is true; when errors is false it returns normally and leaves
\* the records and the chunks as they were.
C8_RemoveAbsent ==
    [][\A name \in Names :
          FindFirst(dsfiles, name) = NoFile =>
            /\ Remove(name, TRUE) => last'.res = "FileNotFoundError"
            /\ Remove(name, FALSE) =>
                 (last'.res = "ok" /\ UNCHANGED <<dsfiles, dsparts>>)]_vars

\* C9: after remove of an existing file has returned, exists is false,
\* open in mode 'r' raises FileNotFoundError, the filename is not listed
\* and no chunk with the file's primary key remains.
C9_Removed ==
    (last.op = "remove" /\ last.before # NoFile) =>
        /\ last.res = "ok"
        /\ ~ExistsCall(dsfiles, last.name)
        /\ OpenCall(dsfiles, dsparts, nextId, last.name, ModeR).res
             = "FileNotFoundError"
        /\ last.name \notin ListCall(dsfiles)
        /\ BagToSet(FindParts(dsparts, last.before.id)) = {}

\* a file of several chunks was removed while another file stays
C9_Witness ==
    /\ last.op = "remove" /\ last.res = "ok"
    /\ last.before.parts > 1
    /\ dsfiles # {}

\* C10: open in mode 'r' of a filename that has no record raises
\* FileNotFoundError and changes neither table, nor the handle.
C10_OpenReadAbsent ==
    [][\A h \in Handles, name \in Names :
          (FindFirst(dsfiles, name) = NoFile /\ Open(h, name, ModeR)) =>
            /\ last'.res = "FileNotFoundError"
            /\ UNCHANGED <<dsfiles, dsparts, nextId, handles>>]_vars

\* open in mode 'r' of a filename without a record raised, other files there
C10_Witness ==
    /\ last.op = "open" /\ last.mode = ModeR
    /\ last.res = "FileNotFoundError" /\ last.before = NoFile
    /\ dsfiles # {}

(***************************************************************************)
(* The modes of open                                                       *)
(***************************************************************************)
\* the mode is not 'r', not 'w' or 'wb', and has none of the markers 'r',
\* 'b', '+'
Unrecognized(mode) ==
    ~IsRead(mode) /\ ~IsWriteNew(mode) /\ ~IsReadOrAppend(mode)

\* C11: open with a mode that is not recognized raises ValueError
\* (InvalidMode), whether the filename has a record or not, and creates or
\* changes no record.
C11_InvalidMode ==
    [][\A h \in Handles, name \in Names, mode \in OpenModes :
          (/\ Calls("open", name, mode, <<>>) /\ Unrecognized(mode)
           /\ Open(h, name, mode))
            => /\ last'.res = "ValueError"
               /\ UNCHANGED <<dsfiles, dsparts, nextId, handles>>]_vars

\* C12: open in mode 'w' or 'wb' returns with the filename present, size 0,
\* parts 0 and no chunks: a filename without a record gets a new record, an
\* existing record keeps its id and loses all its chunks.
C12_OpenWrite ==
    [][\A h \in Handles, name \in Names, mode \in {ModeW, ModeWB} :
          (Calls("open", name, mode, <<>>) /\ Open(h, name, mode))
            => LET before == FindFirst(dsfiles, name)
                   after == FindFirst(dsfiles', name)
               IN  /\ last'.res = "ok"
                   /\ after # NoFile /\ after.size = 0 /\ after.parts = 0
                   /\ BagToSet(FindParts(dsparts', after.id)) = {}
                   /\ before # NoFile => after.id = before.id
                   /\ before = NoFile =>
                        /\ \A r \in dsfiles : r.id # after.id
                        /\ dsfiles' = dsfiles \cup {after}
                        /\ dsparts' = dsparts
                   /\ handles'[h].file = after]_vars

\* a file of several chunks was opened in mode 'wb'
C12_Witness ==
    /\ last.op = "open" /\ last.mode = ModeWB /\ last.res = "ok"
    /\ last.before.parts > 1
    /\ FindFirst(dsfiles, last.name).id = last.before.id
    /\ FindFirst(dsfiles, last.name).parts = 0

\* C13: open of a filename that has a record, in a mode other than 'w' and
\* 'wb' that has a marker 'r', 'b' or '+', returns a handle on that record
\* and leaves the records and the chunks as they were.
C13_OpenExisting ==
    [][\A h \in Handles, name \in Names, mode \in OpenModes :
          (/\ Calls("open", name, mode, <<>>)
           /\ FindFirst(dsfiles, name) # NoFile
           /\ mode \notin {ModeW, ModeWB}
           /\ \E marker \in {"r", "b", "+"} : InMode(marker, mode)
           /\ Open(h, name, mode))
            => /\ last'.res = "ok"
               /\ handles'[h] = FileLike(FindFirst(dsfiles, name), mode)
               /\ UNCHANGED <<dsfiles, dsparts, nextId>>]_vars

\* a file of several chunks was opened in mode 'w+'
C13_Witness ==
    /\ last.op = "open" /\ last.mode = ModeWPlus /\ last.res = "ok"
    /\ last.before.parts > 1
    /\ handles[last.h].file = last.before
    /\ FindFirst(dsfiles, last.name) = last.before

(***************************************************************************)
(* Handles that may not write                                              *)
(***************************************************************************)
\* C14: write and truncate on a handle whose mode has no 'w' raise
\* ValueError (WriteNotAllowed) and leave the records, the chunks and the
\* handle as they were.
C14_WriteNotAllowed ==
    [][\A h \in Handles :
          (last'.h = h /\ handles[h] # NoHandle /\ ~InMode("w", handles[h].mode))
            => /\ \A data \in Data, cs \in 1..chunksize,
                     bs \in 1..write_batchsize, replace \in BOOLEAN :
                    (last'.op = "write" /\ HWrite(h, data, cs, bs, replace, {}))
                      => /\ last'.res = "ValueError"
                         /\ UNCHANGED <<dsfiles, dsparts, nextId, handles>>
               /\ (last'.op = "truncate" /\ HTruncate(h))
                    => /\ last'.res = "ValueError"
                       /\ UNCHANGED <<dsfiles, dsparts, nextId, handles>>]_vars

\* bytes were written to a handle opened in mode 'r' on a file with chunks
C14_Witness ==
    /\ last.op = "write" /\ last.res = "ValueError"
    /\ last.mode = ModeR /\ last.data # <<>>
    /\ last.before.parts > 0

(***************************************************************************)
(* Removal through a handle                                                *)
(***************************************************************************)
\* C15: handle.remove() deletes the record and every chunk of it, and a
\* read on that handle after it (a handle that may read, whatever the size
\* asked and however many parts the file had) raises FileNotFoundError.
C15_ReadAfterRemove ==
    [][\A h \in Handles :
          /\ (last'.op = "hremove" /\ last'.res = "ok" /\ HRemove(h))
                => /\ FindFirst(dsfiles', last'.name) = NoFile
                   /\ BagToSet(FindParts(dsparts', last'.id)) = {}
          /\ (/\ last.op = "hremove" /\ last.res = "ok" /\ last.h = h
              /\ last'.op = "read" /\ last'.h = h
              /\ CheckReadable(handles[h])
              /\ \E size \in ReadSizes, bs \in 1..read_batchsize :
                    /\ Len(last'.order) = Len(ReadJobs(handles[h].file.parts, bs))
                    /\ HRead(h, size, bs, last'.order))
                => last'.res = "FileNotFoundError"]_vars

(***************************************************************************)
(* Truncate                                                                *)
(***************************************************************************)
\* the record the handle in slot h is bound to is in the table
Bound(h) ==
    /\ handles[h] # NoHandle
    /\ \E r \in dsfiles : r.id = handles[h].file.id

\* C16: truncate on a handle that may write, bound to a record of the
\* table, deletes every chunk of that record and no other chunk, leaves the
\* record under the same id with size 0 and parts 0, and returns the handle
\* bound to the record so reset; a write of any payload on the handle
\* returned then leaves the payload as the content of the file.
C16_Truncate ==
    [][\A h \in Handles :
          (/\ last'.op = "truncate" /\ last'.h = h
           /\ Bound(h) /\ InMode("w", handles[h].mode)
           /\ HTruncate(h))
            => LET id == handles[h].file.id
                   after == FindFirst(dsfiles', handles[h].file.filename)
               IN  /\ last'.res = "ok"
                   /\ BagToSet(FindParts(dsparts', id)) = {}
                   /\ \A r \in BagToSet(dsparts) :
                        r.file_id # id =>
                          /\ r \in BagToSet(dsparts')
                          /\ dsparts'[r] = dsparts[r]
                   /\ after # NoFile /\ after.id = id
                   /\ after.size = 0 /\ after.parts = 0
                   /\ {r.id : r \in dsfiles'} = {r.id : r \in dsfiles}
                   /\ handles'[h] = [handles[h] EXCEPT !.file = after]
                   /\ \A data \in Data, cs \in 1..chunksize :
                        \A w \in {WriteCall(dsfiles', dsparts', handles'[h], data,
                                            cs, write_batchsize, FALSE, {})} :
                          /\ w.res = "ok"
                          /\ Content(w.rows, id) = {data}
                          /\ FileRecordInvariant(FindFirst(w.files, after.filename),
                                                 w.rows)
                          /\ FilesReadCall(w.files, w.rows, nextId', after.filename)
                               = {[res |-> "ok", data |-> data]}]_vars

\* a handle was truncated whose file held several chunks
C16_Witness ==
    /\ last.op = "truncate" /\ last.res = "ok"
    /\ last.before.parts > 1 /\ last.before.id = last.id
    /\ FindFirst(dsfiles, last.name).id = last.id
    /\ FindFirst(dsfiles, last.name).parts = 0
    /\ BagToSet(FindParts(dsparts, last.id)) = {}

(***************************************************************************)
(* The size a handle reports                                               *)
(***************************************************************************)
\* C17: when read() with size -1 on a handle that has no read buffer yet
\* and stands at position 0 succeeds, it returns as many bytes as the size
\* the handle reports, also when another handle appended to the file or
\* overwrote it after this one was opened.
C17_FullReadSize ==
    [][\A h \in Handles :
          (/\ last'.op = "read" /\ last'.h = h /\ last'.res = "ok"
           /\ handles[h] # NoHandle
           /\ handles[h].readbuffer = NoBuffer /\ handles[h].readpos = 0
           /\ \E bs \in 1..read_batchsize :
                 /\ Len(last'.order) = Len(ReadJobs(handles[h].file.parts, bs))
                 /\ HRead(h, -1, bs, last'.order))
            => Len(last'.data) = handles'[h].file.size]_vars

(***************************************************************************)
(* put                                                                     *)
(***************************************************************************)
\* C18: put(data, filename) with no mode given acts as mode 'w' does: when
\* the filename holds content, the content of the file after put is exactly
\* data and read returns data.
C18_PutReplaces ==
    [][\A h \in Handles, name \in Names, data \in Data :
          (/\ Calls("put", name, put_mode, data)
           /\ Holds(name) /\ FindFirst(dsfiles, name).size > 0
           /\ Put(h, name, data, put_mode, {}))
            => /\ last'.res = "ok"
               /\ FindFirst(dsfiles', name) # NoFile
               /\ Content(dsparts', FindFirst(dsfiles', name).id) = {data}
               /\ FilesReadCall(dsfiles', dsparts', nextId', name)
                    = {[res |-> "ok", data |-> data]}]_vars

(***************************************************************************)
(* Writes that fail part-way                                               *)
(***************************************************************************)
\* C19: when a commit task of a write fails, on a handle that has the
\* record as the table has it and a file whose record and chunks agree,
\* the record and the chunks still agree after the write: no chunk of the
\* record has a part number at or above the record's parts, and size
\* is the sum of the lengths of the chunks.
C19_AllOrNothing ==
    [][\A h \in Handles :
          (/\ last'.op = "write" /\ last'.h = h
           /\ Current(h) /\ Holds(handles[h].file.filename)
           /\ \E cs \in 1..chunksize, bs \in 1..write_batchsize,
                 replace \in BOOLEAN, failed \in SUBSET (1..MaxLen) \ {{}} :
                 HWrite(h, last'.data, cs, bs, replace, failed))
            => LET after == FindFirst(dsfiles', last'.name)
               IN  /\ after # NoFile
                   /\ \A r \in BagToSet(FindParts(dsparts', after.id)) :
                        r.part_no < after.parts
                   /\ \A c \in Content(dsparts', after.id) :
                        after.size = Len(c)]_vars

(***************************************************************************)
(* The parts of a write                                                    *)
(***************************************************************************)
\* ceil(n / c)
CeilDiv(n, c) == (n + c - 1) \div c

\* after the step the file of the filename holds data cut into chunks of cs
\* bytes: ceil(N/cs) parts numbered from 0, each once, each of cs bytes but
\* the last, which holds the rest; size is N and parts is ceil(N/cs)
Chunked(name, data, cs) ==
    LET after == FindFirst(dsfiles', name)
        chunks == FindParts(dsparts', after.id)
        N == Len(data)
        n == CeilDiv(N, cs)
    IN  /\ after # NoFile
        /\ after.size = N /\ after.parts = n
        /\ BagCardinality(chunks) = n
        /\ {r.part_no : r \in BagToSet(chunks)} = 0..(n - 1)
        /\ \A r \in BagToSet(chunks) :
             /\ r.part_no < n - 1 => Len(r.data) = cs
             /\ r.part_no = n - 1 => Len(r.data) = N - cs * (n - 1)
             /\ r.data = SubSeq(data, cs * r.part_no + 1,
                                cs * r.part_no + Len(r.data))

\* the filename has no record, or a record with no parts and no chunks
Empty(name) ==
    \/ FindFirst(dsfiles, name) = NoFile
    \/ Holds(name) /\ FindFirst(dsfiles, name).parts = 0

\* C20: a write of N bytes with chunk size c to an empty file (through a
\* handle that has the record as the table has it, or by files.write with
\* the default chunk size) that returns leaves exactly ceil(N/c) parts
\* numbered 0..ceil(N/c)-1, each of c bytes except possibly the last, and
\* sets size to N and parts to ceil(N/c).
C20_PartCount ==
    [][/\ \A h \in Handles :
            (/\ last'.op = "write" /\ last'.h = h /\ last'.res = "ok"
             /\ Current(h) /\ Empty(handles[h].file.filename))
              => \A cs \in 1..chunksize, replace \in BOOLEAN :
                   HWrite(h, last'.data, cs, write_batchsize, replace, {})
                     => Chunked(last'.name, last'.data, cs)
       /\ \A name \in Names, mode \in Modes :
            (/\ Calls("files.write", name, mode, last'.data) /\ last'.res = "ok"
             /\ Empty(name)
             /\ FilesWrite(name, last'.data, mode, {}))
              => Chunked(name, last'.data, chunksize)]_vars

\* three bytes were written with chunk size 2 to an empty file: two parts,
\* the last of one byte
C20_Witness ==
    /\ last.op = "write" /\ last.res = "ok" /\ Len(last.data) = 3
    /\ last.before # NoFile /\ last.before.parts = 0
    /\ FindFirst(dsfiles, last.name).parts = 2
    /\ \E r \in BagToSet(FindParts(dsparts, last.id)) :
         r.part_no = 1 /\ Len(r.data) = 1

(***************************************************************************)
(* find and list                                                           *)
(***************************************************************************)
\* name starts with p
StartsWith(name, p) ==
    Len(name) >= Len(p) /\ SubSeq(name, 1, Len(p)) = p

\* the list holds exactly the filenames of S, each once
ListsOnce(list, S) ==
    /\ {list[i] : i \in 1..Len(list)} = S
    /\ Len(list) = Cardinality(S)

\* C21: list() gives what find('*') gives, every filename that has a record
\* exactly once; find(p + '*') for a prefix p with no wildcard gives exactly
\* the filenames with a record that start with p, each once.
C21_FindPrefix ==
    [][/\ (last'.op = "list" /\ List)
            => /\ last'.data \in FindCall(dsfiles, <<"*">>)
               /\ ListsOnce(last'.data, {r.filename : r \in dsfiles})
       /\ \A p \in CharNames \cup {<<>>} :
            (/\ last'.op = "find" /\ last'.name = p \o <<"*">>
             /\ Find(p \o <<"*">>))
              => ListsOnce(last'.data,
                           {r.filename : r \in {q \in dsfiles :
                                                  StartsWith(q.filename, p)}})]_vars

(***************************************************************************)
(* Scoped use of a handle                                                  *)
(***************************************************************************)
\* C22: when a `with open(...) as h:` block has ended, by its body
\* returning or raising, the handle h used in the block holds no read
\* buffer.
C22_ScopeReleases ==
    [][\A h \in Handles, name \in Names, mode \in OpenModes :
          (/\ Calls("with", name, mode, last'.data) /\ last'.h = h
           /\ last'.id # 0
           /\ \E size \in ReadSizes, bs \in 1..read_batchsize :
                 WithRead(h, name, mode, size, bs))
            => handles'[h].readbuffer = NoBuffer]_vars

(***************************************************************************)
(* Fetch tasks and missing parts                                           *)
(***************************************************************************)
\* the fetch task for the parts from start_no on finds fewer chunks than
\* the handle's record counts in its range
FewerThanExpected(rows, fl, start_no, bs) ==
    LET left == fl.file.parts - start_no
        expected == IF bs < left THEN bs ELSE left
    IN  BagCardinality(PartsBetween(rows, fl.file.id, start_no, start_no + bs - 1))
          < expected

\* C23: a read that fetches (the handle has no buffer yet) raises
\* FileNotFoundError whenever the part range of one of its fetch tasks
\* holds fewer chunks than min(batchsize, parts - start_no); it never
\* returns content with a part missing.
C23_MissingPart ==
    [][\A h \in Handles :
          (/\ last'.op = "read" /\ last'.h = h
           /\ handles[h] # NoHandle /\ CheckReadable(handles[h])
           /\ handles[h].readbuffer = NoBuffer
           /\ \E size \in ReadSizes, bs \in 1..read_batchsize :
                 /\ Len(last'.order) = Len(ReadJobs(handles[h].file.parts, bs))
                 /\ HRead(h, size, bs, last'.order)
                 /\ \E i \in 1..Len(last'.order) :
                       FewerThanExpected(dsparts, handles[h],
                           ReadJobs(handles[h].file.parts, bs)[i], bs))
            => last'.res = "FileNotFoundError"]_vars

(***************************************************************************)
(* Filenames are unique                                                    *)
(***************************************************************************)
\* C24: in every state at most one record has a given filename; when the
\* open calls of two threads in a mode that creates find no record for the
\* same filename before either has created one, the create that comes
\* second raises IntegrityError and adds no record.
C24_UniqueFilename ==
    /\ [](\A r, q \in dsfiles : r.filename = q.filename => r = q)
    /\ [][\A t \in Threads :
            (/\ threads[t].pc = "opening" /\ threads[t].seen = NoFile
             /\ ~IsRead(threads[t].mode)
             /\ FindFirst(dsfiles, threads[t].name) # NoFile
             /\ ThreadOpenFinish(t))
              => /\ threads'[t].res = "IntegrityError"
                 /\ threads'[t].fl = NoHandle
                 /\ UNCHANGED <<dsfiles, dsparts, nextId>>]_vars

\* two threads opened the same absent filename to write, both found no
\* record, one created it and the other got IntegrityError
C24_Witness ==
    /\ last.op = "open" /\ last.res = "IntegrityError" /\ last.before = NoFile
    /\ \E t, q \in Threads :
         /\ t # q /\ threads[t].name = threads[q].name
         /\ threads[t].seen = NoFile /\ threads[q].seen = NoFile
         /\ threads[t].res = "ok" /\ threads[q].res = "IntegrityError"
         /\ FindFirst(dsfiles, threads[t].name) = threads[t].fl.file

(***************************************************************************)
(* The worker pool                                                         *)
(***************************************************************************)
\* the tasks a worker is running, over all the calls in progress
Executing == UNION {{<<t, task>> : task \in threads[t].running} : t \in Threads}

\* C25: the writes and reads in progress share one pool of max_workers
\* workers: at no moment are more than max_workers of their tasks running.
C25_PoolBound == Cardinality(Executing) <= max_workers

(***************************************************************************)
(* Writers at the same time                                                *)
(***************************************************************************)
\* C26: when the write of a thread ran while another thread was writing to
\* the same file id, then once it has saved the record, and as long as no
\* later save or open has come, the record has exactly the size and the
\* parts this writer computed: the writer that saves last wins, and the
\* record never has the size of one writer and the parts of the other.
C26_LastWriteWins ==
    \A t \in Threads :
      (/\ last.op = "write" /\ last.res = "ok" /\ last.h = t
       /\ threads[t].pc = "done" /\ threads[t].overlap)
        => \E r \in dsfiles :
             /\ r.id = last.id
             /\ r.size = threads[t].size
             /\ r.parts = threads[t].part_no

\* two threads wrote to one file id at the same time and computed different
\* counters; both have saved
C26_Witness ==
    \E t, q \in Threads :
      /\ t # q /\ last.op = "write" /\ last.res = "ok" /\ last.h = t
      /\ threads[t].pc = "done" /\ threads[q].pc = "done"
      /\ threads[t].overlap /\ threads[q].overlap
      /\ threads[t].res = "ok" /\ threads[q].res = "ok"
      /\ threads[t].fl.file.id = threads[q].fl.file.id
      /\ threads[t].size # threads[q].size
      /\ threads[t].part_no # threads[q].part_no
      /\ FindFirst(dsfiles, last.name).size = threads[t].size

(***************************************************************************)
(* Reads from the cached buffer, and seek                                  *)
(***************************************************************************)
\* the n bytes of buf after the first pos bytes; all of them for n = -1
Slice(buf, pos, n) ==
    IF pos >= Len(buf) THEN <<>>
    ELSE SubSeq(buf, pos + 1,
                IF n < 0 \/ pos + n > Len(buf) THEN Len(buf) ELSE pos + n)

\* C27: a read on a handle that holds a read buffer returns the bytes of
\* the buffer from where the last read or seek left the cursor and moves
\* the cursor past them; the buffer stays as it was fetched, whatever the
\* tables hold by now (nothing is fetched).  seek(pos) moves the cursor of a
\* buffer to pos and fetches nothing; on a handle with no buffer yet it
\* makes the first read return the content from byte pos on.
C27_BufferedReads ==
    [][\A h \in Handles :
          (last'.h = h /\ handles[h] # NoHandle)
            => /\ (/\ last'.op = "read" /\ CheckReadable(handles[h])
                   /\ handles[h].readbuffer # NoBuffer)
                    => \A size \in ReadSizes, bs \in 1..read_batchsize :
                         (/\ Len(last'.order)
                               = Len(ReadJobs(handles[h].file.parts, bs))
                          /\ HRead(h, size, bs, last'.order))
                           => LET b == handles[h].readbuffer
                              IN  /\ last'.res = "ok"
                                  /\ last'.data = Slice(b.buf, b.pos, size)
                                  /\ handles'[h].readbuffer
                                       = [b EXCEPT !.pos = b.pos + Len(last'.data)]
               /\ (/\ last'.op = "read" /\ last'.res = "ok"
                   /\ handles[h].readbuffer = NoBuffer)
                    => \A size \in ReadSizes, bs \in 1..read_batchsize :
                         (/\ Len(last'.order)
                               = Len(ReadJobs(handles[h].file.parts, bs))
                          /\ HRead(h, size, bs, last'.order))
                           => LET b == handles'[h].readbuffer
                                  pos == handles[h].readpos
                              IN  /\ last'.data = Slice(b.buf, pos, size)
                                  /\ b.pos = pos + Len(last'.data)
               /\ last'.op = "seek"
                    => \A pos \in 0..MaxLen :
                         HSeek(h, pos)
                           => /\ handles'[h].readpos = pos
                              /\ handles'[h].readbuffer
                                   = IF handles[h].readbuffer = NoBuffer
                                     THEN NoBuffer
                                     ELSE [handles[h].readbuffer EXCEPT !.pos = pos]
                              /\ UNCHANGED <<dsfiles, dsparts, nextId>>]_vars

\* a handle positioned by seek(1) on a file of several bytes: a read
\* returned the bytes from the second on and left the cursor at the end
C27_Witness ==
    \E h \in Handles :
      /\ last.op = "read" /\ last.res = "ok" /\ last.h = h
      /\ handles[h].readpos = 1
      /\ Len(handles[h].readbuffer.buf) > 1
      /\ last.data = Tail(handles[h].readbuffer.buf)
      /\ handles[h].readbuffer.pos = Len(handles[h].readbuffer.buf)

(***************************************************************************)
(* readchunks                                                              *)
(***************************************************************************)
\* the chunks of the file with primary key id, by part number
ChunksOf(rows, id) ==
    {[i \in 1..Len(o) |-> o[i].data] : o \in OrderByPartNo(FindParts(rows, id))}

\* C28: readchunks(size) on a handle that may read and has the record as
\* the table has it, of a file whose record and chunks agree, yields the
\* chunks in increasing part number: all of them for size -1, and for
\* size >= 0 the shortest run of the first chunks whose lengths add up to
\* size or more (all when they never do), so none for size 0.
C28_ReadChunks ==
    [][\A h \in Handles :
          (/\ last'.op = "readchunks" /\ last'.h = h
           /\ Current(h) /\ CheckReadable(handles[h])
           /\ Holds(handles[h].file.filename))
            => \A size \in ChunkSizes :
                 HReadChunks(h, size)
                   => \A all \in ChunksOf(dsparts, handles[h].file.id) :
                        LET out == last'.data
                        IN  /\ last'.res = "ok"
                            /\ Len(out) <= Len(all)
                            /\ out = SubSeq(all, 1, Len(out))
                            /\ size = -1 => out = all
                            /\ size >= 0 =>
                                 /\ out = all \/ Len(Join(out)) >= size
                                 /\ out # <<>> =>
                                      Len(Join(SubSeq(out, 1, Len(out) - 1))) < size]_vars

(***************************************************************************)
(* Write batching                                                          *)
(***************************************************************************)
\* C29: the commit tasks one write call submits hold every chunk of the
\* call exactly once, in part number order; every task holds batchsize
\* chunks, except that the last may hold fewer (never none): a write of p
\* parts submits ceil(p / batchsize) tasks, and none when p = 0.
C29_WriteBatching ==
    [][\A t \in Threads :
          (/\ threads[t].pc = "open" /\ threads'[t].pc = "writing")
            => \A data \in Data, cs \in 1..chunksize, bs \in 1..write_batchsize :
                 ThreadWriteStart(t, data, cs, bs)
                   => LET tasks == threads'[t].queue
                          first == threads[t].fl.file.parts
                          p == threads'[t].part_no - first
                          chunks == Join(tasks)
                      IN  /\ p = CeilDiv(Len(data), cs)
                          /\ Len(tasks) = CeilDiv(p, bs)
                          /\ \A i \in 1..Len(tasks) :
                               IF i < Len(tasks) THEN Len(tasks[i]) = bs
                               ELSE Len(tasks[i]) \in 1..bs
                          /\ Len(chunks) = p
                          /\ \A k \in 1..p : chunks[k].part_no = first + k - 1
                          /\ Join([k \in 1..p |-> chunks[k].data]) = data]_vars

\* a write of three parts with batchsize 2 is under way: a task of two
\* chunks and a last task of one
C29_Witness ==
    \E t \in Threads :
      /\ threads[t].pc = "writing" /\ threads[t].running = {}
      /\ Len(threads[t].queue) = 2
      /\ Len(threads[t].queue[1]) = 2 /\ Len(threads[t].queue[2]) = 1

(***************************************************************************)
(* Chunks are immutable                                                    *)
(***************************************************************************)
\* the step only inserted chunks for the record, under part numbers the
\* record did not have (or left its chunks alone)
InsertedOnly(old, new) ==
    /\ old \sqsubseteq new
    /\ \A r \in BagToSet(new (-) old), q \in BagToSet(old) : r.part_no # q.part_no

\* the step deleted all the chunks the record had; the chunks it has now
\* are those a write of the step's payload inserts from part number 0 on
DeletedAll(id, new) ==
    /\ last'.id = id \/ last'.before.id = id
    /\ \/ new = EmptyBag
       \/ /\ last'.op \in {"write", "files.write"}
          /\ \A c \in InPartOrder(new) : c = last'.data
          /\ \A r \in BagToSet(new) : new[r] = 1
          /\ {r.part_no : r \in BagToSet(new)} = 0..(BagCardinality(new) - 1)

\* C30: no step changes the data or the part number of a chunk that is
\* stored: for every record, a step either leaves its chunks in place and
\* at most inserts chunks under part numbers it did not have (write), or
\* deletes all of them (truncate, open in 'w' or 'wb', remove).
C30_ChunksImmutable ==
    [][\A id \in 1..MaxId :
          LET old == FindParts(dsparts, id)
              new == FindParts(dsparts', id)
          IN  InsertedOnly(old, new) \/ DeletedAll(id, new)]_vars

(***************************************************************************)
(* Chunk payloads                                                          *)
(***************************************************************************)
\* the chunks a step stored on top of the bag `base`
StoredOver(base) == BagToSet(dsparts' (-) base)

\* C31: a write call with chunk size cs > 0 stores only chunks whose payload
\* has at least 1 and at most cs bytes, and no chunk in the table is ever
\* empty or longer than the largest chunk size in use.
C31_ChunkPayload ==
    /\ [](\A r \in BagToSet(dsparts) : Len(r.data) \in 1..chunksize)
    /\ [][\A h \in Handles :
            (/\ last'.op = "write" /\ last'.h = h
             /\ last'.res # "ValueError" /\ handles[h] # NoHandle) =>
              \A cs \in 1..chunksize, replace \in BOOLEAN :
                \E c \in {WriteCall(dsfiles, dsparts, handles[h], last'.data,
                                    cs, write_batchsize, replace, {})} :
                  (dsparts' = c.rows /\ handles'[h] = c.fl /\ dsfiles' = c.files)
                    => \A r \in StoredOver(IF replace
                                            THEN DeleteParts(dsparts, handles[h].file.id)
                                            ELSE dsparts) :
                          Len(r.data) \in 1..cs]_vars

\* A write of three bytes stored a chunk of two bytes and a chunk of one.
C31_Witness ==
    /\ last.op = "write"
    /\ last.res = "ok"
    /\ Len(last.data) = 3
    /\ \E r, q \in BagToSet(dsparts) :
          /\ r.file_id = last.id /\ q.file_id = last.id
          /\ Len(r.data) = 2 /\ Len(q.data) = 1
          /\ q.part_no = r.part_no + 1

(***************************************************************************)
(* Removal                                                                 *)
(***************************************************************************)
\* C32: a filename that is absent after remove stays absent until an open
\* in a mode other than 'r' is called for it: a write or a truncate through
\* a handle obtained before the removal does not bring the record back and
\* inserts no chunk for the removed file id.
C32_RemovedStaysAbsent ==
    [][\A h \in Handles :
          (/\ last'.op \in {"write", "truncate"}
           /\ last'.h = h
           /\ handles[h] # NoHandle
           /\ FindFirst(dsfiles, handles[h].file.filename) = NoFile
           /\ \A r \in dsfiles : r.id # handles[h].file.id)
          => /\ ~ExistsCall(dsfiles', handles[h].file.filename)
             /\ FindParts(dsparts', handles[h].file.id)
                  \sqsubseteq FindParts(dsparts, handles[h].file.id)]_vars

(***************************************************************************)
(* A read that failed                                                      *)
(***************************************************************************)
\* C33: a read whose fetch raised leaves no read buffer on the handle, and
\* the next read on the handle, whatever its size and batch size, raises
\* again or returns bytes of the file as the chunk table holds it.
C33_FailedReadNoBuffer ==
    [][\A h \in Handles :
          (last'.op = "read" /\ last'.h = h /\ last'.res = "FileNotFoundError")
            => /\ handles'[h].readbuffer = NoBuffer
               /\ \A size \in ReadSizes, bs \in 1..read_batchsize :
                   \A order \in Perms(Len(ReadJobs(handles'[h].file.parts, bs))) :
                   \A c \in ReadCall(dsparts', handles'[h], size, bs, order) :
                      \/ c.res = "FileNotFoundError"
                      \/ /\ c.res = "ok"
                         /\ \E full \in Content(dsparts', handles'[h].file.id) :
                               c.data = BufferRead(full, handles'[h].readpos, size)]_vars

(***************************************************************************)
(* Entering a handle's context                                             *)
(***************************************************************************)
\* C34: entering the context of a handle, whatever its mode and whether or
\* not it has written, leaves the file's record (size and part count) and
\* every chunk as they were.
C34_EnterKeepsFile ==
    [][\A h \in Handles :
          (last'.op = "enter" /\ last'.h = h /\ handles[h] # NoHandle)
            => /\ FindFirst(dsfiles', handles[h].file.filename)
                    = FindFirst(dsfiles, handles[h].file.filename)
               /\ dsparts' = dsparts]_vars

(***************************************************************************)
(* Reading what the handle itself wrote                                    *)
(***************************************************************************)
\* every result of a read of everything from position 0 on the handle fl,
\* the fetch tasks, should there be any, finishing in the order of their jobs
ReadFromStart(rows, fl) ==
    UNION {ReadCall(rows, SeekCall(fl, 0), -1, bs,
                    [i \in 1..Len(ReadJobs(fl.file.parts, bs)) |-> i]) :
             bs \in 1..read_batchsize}

\* C35: after a write or a truncate through a handle that may read and
\* write, and that has the record as the table has it with its chunks in
\* place, a read from position 0 on the handle that returns gives the
\* bytes the file holds now, never bytes of a buffer filled before.
C35_ReadOwnWrite ==
    [][\A h \in Handles :
          (/\ last'.op \in {"write", "truncate"} /\ last'.h = h
           /\ last'.res = "ok"
           /\ InMode("r", handles'[h].mode) /\ InMode("w", handles'[h].mode)
           /\ handles'[h].file = FindFirst(dsfiles', handles'[h].file.filename)
           /\ FileRecordInvariant(handles'[h].file, dsparts'))
            => \A c \in ReadFromStart(dsparts', handles'[h]) :
                  /\ c.res = "ok"
                  /\ c.data \in Content(dsparts', handles'[h].file.id)]_vars

(***************************************************************************)
(* Writes through one handle add up                                        *)
(***************************************************************************)
\* C36: a write through a handle right after a write through the same
\* handle, in mode 'w' as in any mode that may write, appends: it returns,
\* the file holds the bytes it held followed by the bytes written, the
\* record's size grows by their number and counts the chunks, and the part
\* numbers are 0, 1, ... with none twice; on a file that was empty before
\* the first write the content is the first payload followed by the second.
C36_WritesAccumulate ==
    [][\A h \in Handles :
          (/\ last.op = "write" /\ last.res = "ok" /\ last.h = h
           /\ last'.op = "write" /\ last'.h = h)
            => LET id == handles[h].file.id
                   was == FindFirst(dsfiles, last.name)
                   now == FindFirst(dsfiles', last.name)
                   chunks == FindParts(dsparts', id)
               IN  /\ last'.res = "ok"
                   /\ Content(dsparts', id)
                        = {c \o last'.data : c \in Content(dsparts, id)}
                   /\ now.id = id
                   /\ now.size = was.size + Len(last'.data)
                   /\ now.parts = BagCardinality(chunks)
                   /\ {r.part_no : r \in BagToSet(chunks)} = 0..(now.parts - 1)
                   /\ \A r \in BagToSet(chunks) : chunks[r] = 1
                   /\ last.before.parts = 0
                        => /\ Content(dsparts', id) = {last.data \o last'.data}
                           /\ now.size = Len(last.data) + Len(last'.data)]_vars

\* A handle opened in mode 'w' wrote two bytes in two chunks and then one
\* byte: the file holds the three bytes in parts 0, 1 and 2.
C36_Witness ==
    /\ last.op = "write" /\ last.res = "ok" /\ last.mode = ModeW
    /\ last.before.parts = 2 /\ last.before.size = 2
    /\ last.data = <<1>>
    /\ Content(dsparts, last.id) = {<<1, 2, 1>>}
    /\ FindFirst(dsfiles, last.name).parts = 3
    /\ handles[last.h].file.parts = 3

=============================================================================
